---- MODULE Spec2Model ----
(***************************************************************************)
(* Model of frontend/src/App.js: the module imports "./App.css" and        *)
(* exports one function component, App, whose body is a single return of  *)
(* a JSX expression.                                                       *)
(*                                                                         *)
(* Text is a sequence of tokens: a word, a single space " ", or a code     *)
(* point written "U+XXXX" (the module's strings are ASCII only).  The JSX  *)
(* expression is kept as written in the source, with the line breaks and   *)
(* indentation between tags, and jsx() evaluates it the way the JSX        *)
(* transform does: text is cleaned line by line and whitespace-only text   *)
(* that spans a line break is dropped.                                     *)
(***************************************************************************)
EXTENDS Integers, Sequences, FiniteSets, TLC

VARIABLES
    moduleLoaded,   \* whether the module has been evaluated
    stylesheets,    \* style sheets the host has loaded (import "./App.css", line 1)
    calls           \* the invocations of App so far: argument list, outcome, returned tree

vars == <<moduleLoaded, stylesheets, calls>>

(* Bound on the number of invocations of App in one behaviour. *)
MaxCalls == 4

-----------------------------------------------------------------------------
(* Text tokens *)

SP == " "

Spaces(n) == [i \in 1..n |-> SP]

IsBlank(line) == \A i \in 1..Len(line) : line[i] = SP

RECURSIVE TrimStart(_)
TrimStart(line) ==
    IF line # <<>> /\ Head(line) = SP THEN TrimStart(Tail(line)) ELSE line

RECURSIVE TrimEnd(_)
TrimEnd(line) ==
    IF line # <<>> /\ line[Len(line)] = SP
    THEN TrimEnd(SubSeq(line, 1, Len(line) - 1))
    ELSE line

(* Index of the last line holding a non-blank character, 0 when none. *)
LastNonEmptyLine(lines) ==
    LET S == {i \in 1..Len(lines) : ~IsBlank(lines[i])}
    IN  IF S = {} THEN 0 ELSE CHOOSE i \in S : \A j \in S : j <= i

(* One line of a JSX text, cleaned: leading whitespace goes unless it is  *)
(* the first line, trailing whitespace goes unless it is the last line,   *)
(* and a line that is left non-empty is followed by one space unless it   *)
(* is the last non-empty line.                                            *)
CleanLine(lines, i) ==
    LET l1 == IF i # 1 THEN TrimStart(lines[i]) ELSE lines[i]
        l2 == IF i # Len(lines) THEN TrimEnd(l1) ELSE l1
    IN  IF l2 = <<>> THEN <<>>
        ELSE IF i # LastNonEmptyLine(lines) THEN Append(l2, SP) ELSE l2

RECURSIVE CleanFrom(_, _)
CleanFrom(lines, i) ==
    IF i > Len(lines) THEN <<>>
    ELSE CleanLine(lines, i) \o CleanFrom(lines, i + 1)

(* The text a JSX text child contributes to its element. *)
cleanJSXText(lines) == CleanFrom(lines, 1)

-----------------------------------------------------------------------------
(* JSX as written in the source *)

JSXText(lines) ==
    [type |-> "#jsxtext", attrs |-> <<>>, children |-> <<>>, lines |-> lines]

JSXElement(type, attrs, children) ==
    [type |-> type, attrs |-> attrs, children |-> children, lines |-> <<>>]

(* The line break and indentation between two tags, n columns deep. *)
Indent(n) == JSXText(<<<<>>, Spaces(n)>>)

TitleJSX_plainEmoji ==
    JSXElement("h1", <<>>,
        <<JSXText(<< <<"U+1F3CE", SP, "Welcome", SP, "to", SP, "the",
                       SP, "Formula", SP, "1", SP, "Fan", SP, "Hub">> >>)>>)

(* <h1>...</h1>, line 7 *)
TitleJSX ==
    JSXElement("h1", <<>>,
        <<JSXText(<< <<"U+1F3CE", "U+FE0F", SP, "Welcome", SP, "to", SP, "the",
                       SP, "Formula", SP, "1", SP, "Fan", SP, "Hub">> >>)>>)

SubtitleJSX_noFinalStop ==
    JSXElement("p", <<>>,
        <<JSXText(<< <<"Speed.", SP, "Strategy.", SP, "Adrenaline">> >>)>>)

(* <p>...</p>, line 8 *)
SubtitleJSX ==
    JSXElement("p", <<>>,
        <<JSXText(<< <<"Speed.", SP, "Strategy.", SP, "Adrenaline.">> >>)>>)

LinkWords == <<"Visit", SP, "Official", SP, "F1", SP, "Website">>

LinkJSX_noRel ==
    JSXElement("a",
        << <<"className", "f1-link">>,
           <<"href", "https://www.formula1.com">>,
           <<"target", "_blank">> >>,
        <<JSXText(<< <<>>, Spaces(10) \o LinkWords, Spaces(8) >>)>>)

(* <a ...> ... </a>, lines 9-16 *)
LinkJSX ==
    JSXElement("a",
        << <<"className", "f1-link">>,
           <<"href", "https://www.formula1.com">>,
           <<"target", "_blank">>,
           <<"rel", "noreferrer">> >>,
        <<JSXText(<< <<>>, Spaces(10) \o LinkWords, Spaces(8) >>)>>)

(* A heading block with a third line of text. *)
HeaderJSX_extraLine ==
    JSXElement("header", << <<"className", "App-header">> >>,
        <<Indent(8), TitleJSX, Indent(8), SubtitleJSX, Indent(8),
          JSXElement("p", <<>>, <<JSXText(<< <<"Lights", SP, "out.">> >>)>>),
          Indent(8), LinkJSX, Indent(6)>>)

(* <header className="App-header"> ... </header>, lines 6-17 *)
HeaderJSX ==
    JSXElement("header", << <<"className", "App-header">> >>,
        <<Indent(8), TitleJSX, Indent(8), SubtitleJSX, Indent(8), LinkJSX, Indent(6)>>)

AppJSX_linkBesideHeader ==
    JSXElement("div", << <<"className", "App">> >>,
        <<Indent(6),
          JSXElement("header", << <<"className", "App-header">> >>,
              <<Indent(8), TitleJSX, Indent(8), SubtitleJSX, Indent(6)>>),
          Indent(6), LinkJSX, Indent(4)>>)

(* <div className="App"> ... </div>, lines 5-18 *)
AppJSX ==
    JSXElement("div", << <<"className", "App">> >>,
        <<Indent(6), HeaderJSX, Indent(4)>>)

-----------------------------------------------------------------------------
(* Evaluation of a JSX expression to an element tree *)

TextNode(text) ==
    [type |-> "#text", attrs |-> <<>>, children |-> <<>>, text |-> text]

Element(type, attrs, children) ==
    [type |-> type, attrs |-> attrs, children |-> children, text |-> <<>>]

(* What a component that renders nothing returns. *)
Null == [type |-> "#null", attrs |-> <<>>, children |-> <<>>, text |-> <<>>]

RECURSIVE jsx(_)
RECURSIVE jsxChildren(_)

jsxChildren(cs) ==
    IF cs = <<>> THEN <<>>
    ELSE LET c == Head(cs)
             rest == jsxChildren(Tail(cs))
         IN  IF c.type = "#jsxtext"
             THEN LET t == cleanJSXText(c.lines)
                  IN  IF t = <<>> THEN rest ELSE <<TextNode(t)>> \o rest
             ELSE <<jsx(c)>> \o rest

jsx(e) == Element(e.type, e.attrs, jsxChildren(e.children))

-----------------------------------------------------------------------------
(* Callers *)

(* An argument list is a sequence of arguments; a props object is a       *)
(* sequence of <<name, value>> pairs.                                     *)
NoArgs == <<>>

ArgLists ==
    { NoArgs,
      << <<>> >>,
      << << <<"href", "https://example.invalid">> >> >>,
      << << <<"rel", "opener">>, <<"target", "_self">> >> >> }

(* A component that spreads its props over the container. *)
App_spreadProps(args) ==
    IF args = NoArgs THEN jsx(AppJSX)
    ELSE LET t == jsx(AppJSX)
         IN  Element(t.type, t.attrs \o args[1], t.children)

(* A component that renders its content on the first call only. *)
App_firstCallOnly(args) ==
    IF calls = <<>> THEN jsx(AppJSX) ELSE Null

(* A component that renders nothing unless it is given props. *)
App_nothingWithoutProps(args) ==
    IF args = NoArgs THEN Null ELSE jsx(AppJSX)

(* function App() { return ( <div ...> ... </div> ); }: no formal          *)
(* parameters, one return statement.                                      *)
App(args) == jsx(AppJSX)

-----------------------------------------------------------------------------
(* State machine *)

Init ==
    /\ moduleLoaded = FALSE
    /\ stylesheets = {}
    /\ calls = <<>>

(* Evaluation of the module: import "./App.css", then the declaration and *)
(* export of App.  A module is evaluated once.                            *)
LoadModule ==
    /\ ~moduleLoaded
    /\ moduleLoaded' = TRUE
    /\ stylesheets' = stylesheets \cup {"./App.css"}
    /\ UNCHANGED calls

(* An invocation that also adds a style sheet to the host document. *)
Invoke_addsStyle(args) ==
    /\ moduleLoaded
    /\ Len(calls) < MaxCalls
    /\ calls' = Append(calls, [args |-> args, outcome |-> "returned", value |-> App(args)])
    /\ stylesheets' = stylesheets \cup {"inline"}
    /\ UNCHANGED moduleLoaded

(* One invocation of the exported function with the argument list args. *)
Invoke(args) ==
    /\ moduleLoaded
    /\ Len(calls) < MaxCalls
    /\ calls' = Append(calls, [args |-> args, outcome |-> "returned", value |-> App(args)])
    /\ UNCHANGED <<moduleLoaded, stylesheets>>

Next ==
    \/ LoadModule
    \/ \E args \in ArgLists : Invoke(args)

Spec == Init /\ [][Next]_vars

-----------------------------------------------------------------------------
(* Observations of a returned tree *)

RECURSIVE Preorder(_)
RECURSIVE PreorderAll(_)

(* The nodes of a tree in document order. *)
Preorder(n) == <<n>> \o PreorderAll(n.children)

PreorderAll(ns) ==
    IF ns = <<>> THEN <<>> ELSE Preorder(Head(ns)) \o PreorderAll(Tail(ns))

IsElement(n) == n.type \notin {"#text", "#null"}

Elements(t) == SelectSeq(Preorder(t), IsElement)

OfType(t, type) == SelectSeq(Preorder(t), LAMBDA n : n.type = type)

RECURSIVE ConcatText(_)
ConcatText(ns) ==
    IF ns = <<>> THEN <<>> ELSE Head(ns).text \o ConcatText(Tail(ns))

(* The text content of a node: the text of its descendants, in order. *)
TextContent(n) == ConcatText(Preorder(n))

HasAttr(n, name, value) ==
    \E i \in 1..Len(n.attrs) : n.attrs[i] = <<name, value>>

AttrNames(n) == {n.attrs[i][1] : i \in 1..Len(n.attrs)}

ChildTypes(n) == [i \in 1..Len(n.children) |-> n.children[i].type]

Returned == {calls[i].value : i \in 1..Len(calls)}

ReturnedNoArgs == {calls[i].value : i \in {j \in 1..Len(calls) : calls[j].args = NoArgs}}

-----------------------------------------------------------------------------
(* Properties *)

AttrValues(n, name) == {n.attrs[i][2] : i \in {j \in 1..Len(n.attrs) : n.attrs[j][1] = name}}

TitleText ==
    <<"U+1F3CE", "U+FE0F", SP, "Welcome", SP, "to", SP, "the", SP, "Formula",
      SP, "1", SP, "Fan", SP, "Hub">>

SubtitleText == <<"Speed.", SP, "Strategy.", SP, "Adrenaline.">>

LinkText == <<"Visit", SP, "Official", SP, "F1", SP, "Website">>

(* C1: every tree App returns holds exactly one anchor element, and that  *)
(* anchor has href "https://www.formula1.com", target "_blank" and rel    *)
(* "noreferrer".                                                          *)
C1_ExactlyOneLink ==
    \A t \in Returned :
        LET links == OfType(t, "a")
        IN  /\ Len(links) = 1
            /\ AttrValues(links[1], "href") = {"https://www.formula1.com"}
            /\ AttrValues(links[1], "target") = {"_blank"}
            /\ AttrValues(links[1], "rel") = {"noreferrer"}

C1_Witness ==
    \E i \in 1..Len(calls) :
        \E n \in {OfType(calls[i].value, "a")[k] : k \in 1..Len(OfType(calls[i].value, "a"))} :
            HasAttr(n, "href", "https://www.formula1.com")

(* C2: every tree App returns has a single h1 element whose whole text    *)
(* content is the title, U+1F3CE U+FE0F followed by " Welcome to the      *)
(* Formula 1 Fan Hub", nothing added and nothing removed.                 *)
C2_ExactTitle ==
    \A t \in Returned :
        /\ Len(OfType(t, "h1")) = 1
        /\ TextContent(OfType(t, "h1")[1]) = TitleText

C2_Witness ==
    \E i \in 1..Len(calls) :
        /\ OfType(calls[i].value, "h1") # <<>>
        /\ Len(TextContent(OfType(calls[i].value, "h1")[1])) = Len(TitleText)

(* C3: every tree App returns has a single p element whose whole text     *)
(* content is "Speed. Strategy. Adrenaline.".                             *)
C3_ExactSubtitle ==
    \A t \in Returned :
        /\ Len(OfType(t, "p")) = 1
        /\ TextContent(OfType(t, "p")[1]) = SubtitleText

C3_Witness ==
    \E i \in 1..Len(calls) :
        /\ OfType(calls[i].value, "p") # <<>>
        /\ Len(TextContent(OfType(calls[i].value, "p")[1])) = Len(SubtitleText)

(* C4: successive invocations with no arguments all return a tree equal   *)
(* to the one the first such invocation returned.                         *)
C4_Idempotent ==
    \A i, j \in 1..Len(calls) :
        (calls[i].args = NoArgs /\ calls[j].args = NoArgs)
            => calls[j].value = calls[i].value

C4_Witness ==
    \E i, j \in 1..Len(calls) :
        /\ i < j
        /\ calls[i].args = NoArgs
        /\ calls[j].args = NoArgs
        /\ IsElement(calls[j].value)

(* C5: a render with no arguments returns a tree with exactly one         *)
(* container div.App, one heading block header.App-header, two text       *)
(* lines (one h1, one p), one link whose visible text is "Visit Official  *)
(* F1 Website", and no other element.                                     *)
C5_Inventory ==
    \A t \in ReturnedNoArgs :
        /\ Len(OfType(t, "div")) = 1
        /\ HasAttr(OfType(t, "div")[1], "className", "App")
        /\ Len(OfType(t, "header")) = 1
        /\ HasAttr(OfType(t, "header")[1], "className", "App-header")
        /\ Len(OfType(t, "h1")) + Len(OfType(t, "p")) = 2
        /\ Len(OfType(t, "h1")) = 1
        /\ Len(OfType(t, "a")) = 1
        /\ TextContent(OfType(t, "a")[1]) = LinkText
        /\ Len(Elements(t)) = 5

C5_Witness ==
    \E t \in ReturnedNoArgs :
        /\ OfType(t, "a") # <<>>
        /\ OfType(t, "div") # <<>>
        /\ OfType(t, "header") # <<>>

(* C6: an invocation of App changes nothing outside the tree it returns   *)
(* (the loaded module and the host's style sheets stay as they were), and *)
(* a tree, once returned, is never changed by a later step.               *)
C6_NoSideEffects ==
    [][ /\ \A i \in 1..Len(calls) : Len(calls') >= i /\ calls'[i] = calls[i]
        /\ Len(calls') > Len(calls) =>
               (stylesheets' = stylesheets /\ moduleLoaded' = moduleLoaded) ]_vars

C6_Witness ==
    /\ Len(calls) >= 2
    /\ stylesheets = {"./App.css"}

(* C7: every invocation of App completes by returning, and what it        *)
(* returns is the view tree, never an error and never an empty result.    *)
C7_NoErrors ==
    \A i \in 1..Len(calls) :
        /\ calls[i].outcome = "returned"
        /\ calls[i].value # Null
        /\ IsElement(calls[i].value)

C7_Witness ==
    \E i \in 1..Len(calls) :
        calls[i].outcome = "returned" /\ calls[i].args = NoArgs /\ calls[i].value.type = "div"

(* C8: in every returned tree the container div.App has the heading block *)
(* header.App-header as its only child, and the heading block's children  *)
(* are, in order, the h1, the p and the link a.f1-link.                   *)
C8_Nesting ==
    \A t \in Returned :
        /\ t.type = "div"
        /\ HasAttr(t, "className", "App")
        /\ ChildTypes(t) = <<"header">>
        /\ HasAttr(t.children[1], "className", "App-header")
        /\ ChildTypes(t.children[1]) = <<"h1", "p", "a">>
        /\ HasAttr(t.children[1].children[3], "className", "f1-link")

C8_Witness ==
    \E t \in Returned :
        \E i \in 1..Len(t.children) :
            t.children[i].type = "header" /\ Len(t.children[i].children) >= 3

(* C9: the returned tree does not depend on the arguments: any two        *)
(* invocations, whatever their argument lists, return equal trees.        *)
C9_ArgsIgnored ==
    \A i, j \in 1..Len(calls) : calls[i].value = calls[j].value

C9_Witness ==
    \E i, j \in 1..Len(calls) :
        /\ calls[i].args = NoArgs
        /\ calls[j].args # NoArgs
        /\ calls[j].args[1] # <<>>
        /\ \E k \in 1..Len(calls) : calls[k].args \notin {calls[i].args, calls[j].args}

====
